---- MODULE Spec2Model ----
(***************************************************************************)
(* Model of pytorch-lifestream's PaddedBatch container                     *)
(* (ptls/nn/trx_encoder/padded_batch.py) and of the training entry point   *)
(* main (pl_train_module.py).                                              *)
(***************************************************************************)
EXTENDS Integers, Sequences, FiniteSets, TLC

\* ---------------------------------------------------------------- bounds
MaxB == 2        \* largest batch dimension drawn for payloads and lengths
MaxT == 2        \* largest time width drawn for payloads
MaxH == 1        \* largest hidden width drawn for (B, T, H) payloads
MaxObjs == 3     \* PaddedBatch instances alive at once (original + transfers)

Devices == {"cpu", "cuda"}
Keys == <<"amount", "mcc">>

\* ------------------------------------------------------- tensors (torch)
RECURSIVE Numel(_)
Numel(shape) == IF shape = <<>> THEN 1 ELSE Head(shape) * Numel(Tail(shape))

\* A tensor is its shape, its row-major contents and the device holding it.
Tensor(shape, data, device) == [shape |-> shape, data |-> data, device |-> device]

\* contents of the j-th generated array: padded-looking rows of small numbers
Fill(shape, j) == [k \in 1..Numel(shape) |-> (k + j) % (MaxT + 2)]

\* torch.Tensor.to(device=...): same shape, same contents, on the target device
TensorTo(t, device) == [t EXCEPT !.device = device]

\* ------------------------------------------------------------ PaddedBatch
DictPayload(items) == [kind |-> "dict", val |-> items]
\* a bare tensor is held as a single unnamed entry, so that both kinds of
\* payload have one structure
TensorPayload(t) == [kind |-> "tensor", val |-> << <<"", t>> >>]
TensorOf(payload) == payload.val[1][2]

\* PaddedBatch.__init__: stores both arguments, validates nothing
PaddedBatch(payload, length) == [payload |-> payload, length |-> length]

\* PaddedBatch.__len__
\* (LenOfPayload: the batch size read off the payload instead of the lengths)
LenOfPayload(self) ==
    IF self.payload.kind = "dict"
    THEN (IF self.payload.val = <<>> THEN 0 ELSE self.payload.val[1][2].shape[1])
    ELSE TensorOf(self.payload).shape[1]
BatchLen(self) == Len(self.length.data)

Ok(v) == [status |-> "ok", val |-> v]
Raise(e) == [status |-> "raise", val |-> e]

\* rows of the broadcast of a (B, T) operand against an (n, 1) operand
BroadcastRows(B, n) ==
    IF B = n THEN B ELSE IF B = 1 THEN n ELSE IF n = 1 THEN B ELSE -1

\* (MaskCellLE: the comparison off by one; MaskCellAbs: the sign of the length lost)
MaskCellLE(t, len) == IF t <= len THEN 1 ELSE 0
MaskCellAbs(t, len) == IF t < len \/ t < (0 - len) THEN 1 ELSE 0
\* one cell of arange(T) < length.unsqueeze(1), as .long()
MaskCell(t, len) == IF t < len THEN 1 ELSE 0

\* PaddedBatch.seq_len_mask
MaskOf(B, T, length) ==
    LET n == Len(length.data)
        R == BroadcastRows(B, n)
    IN  IF R < 0 THEN Raise("RuntimeError")
        ELSE Ok(Tensor(<<R, T>>,
                       [k \in 1..(R * T) |->
                            LET i == ((k - 1) \div T) + 1
                                t == (k - 1) % T
                            IN  MaskCell(t, length.data[IF n = 1 THEN 1 ELSE i])],
                       length.device))

\* size()[:2]: the first two dimensions, or fewer when there are fewer
Slice2(shape) == SubSeq(shape, 1, IF Len(shape) < 2 THEN Len(shape) ELSE 2)

\* B, T = ... raises ValueError unless exactly two values are unpacked
SeqLenMask(self) ==
    IF self.payload.kind = "dict"
    THEN IF self.payload.val = <<>> THEN Raise("StopIteration")
         ELSE LET size == self.payload.val[1][2].shape
              IN  IF Len(size) # 2 THEN Raise("ValueError")
                  ELSE MaskOf(size[1], size[2], self.length)
    ELSE LET size == Slice2(TensorOf(self.payload).shape)
         IN  IF Len(size) # 2 THEN Raise("ValueError")
             ELSE MaskOf(size[1], size[2], self.length)

\* PaddedBatch.to on the instance heap[i]: the heap afterwards and the
\* reference returned
To(heap, i, device) ==
    LET self == heap[i]
        length == TensorTo(self.length, device)
    IN  IF self.payload.kind # "dict" THEN Raise("AttributeError")
        ELSE LET payload == DictPayload([j \in DOMAIN self.payload.val |->
                                <<self.payload.val[j][1],
                                  TensorTo(self.payload.val[j][2], device)>>])
             IN  Ok([heap |-> Append(heap, PaddedBatch(payload, length)),
                     ret |-> Len(heap) + 1])

\* ------------------------------------------------------- inputs (batches)
Shapes2 == {<<b, t>> : b \in 1..MaxB, t \in 0..MaxT}
Shapes3 == {<<b, t, h>> : b \in 1..MaxB, t \in 0..MaxT, h \in 1..MaxH}

LengthValues == (0 - 1)..(MaxT + 1)
LengthData == UNION {[1..n -> LengthValues] : n \in 1..MaxB}

\* mappings of up to two features; the second array agrees with the first on
\* shape, or disagrees on both dimensions (nothing checks it)
TwoItems(s1, s2, device) ==
    << <<Keys[1], Tensor(s1, Fill(s1, 0), device)>>,
       <<Keys[2], Tensor(s2, Fill(s2, 1), device)>> >>
DictItems(device) ==
    {<<>>}
    \cup {<< <<Keys[1], Tensor(s, Fill(s, 0), device)>> >> : s \in Shapes2}
    \cup {TwoItems(s, s, device) : s \in Shapes2}
    \cup {TwoItems(s, <<s[1] + 1, s[2] + 1>>, device) : s \in Shapes2}

DictPayloads(device) == {DictPayload(items) : items \in DictItems(device)}
TensorPayloads(device) ==
    {TensorPayload(Tensor(s, Fill(s, 0), device)) : s \in Shapes2 \cup Shapes3}

\* a batch as collated on one device
Collated(p, l, device) == PaddedBatch(p, Tensor(<<Len(l)>>, l, device))

\* the batch of the class docstring, and the same contents keyed by feature
DocData == <<1, 2, 0, 0, 3, 4, 5, 6, 7, 8, 9, 0>>
DocLength == Tensor(<<3>>, <<2, 4, 3>>, "cpu")
DocBatch == PaddedBatch(TensorPayload(Tensor(<<3, 4>>, DocData, "cpu")), DocLength)
DocDictBatch ==
    PaddedBatch(DictPayload(<< <<"amount", Tensor(<<3, 4>>, DocData, "cpu")>> >>), DocLength)
DocMask == <<1, 1, 0, 0, 1, 1, 1, 1, 1, 1, 1, 0>>

\* ------------------------------------------------- pl_train_module.main
\* classes imported by pl_train_module; __name__ is the field name
Class(module, name) == [module |-> module, name |-> name]
ColesDataModuleTrain == Class("dltranz.data_load.data_module.coles_data_module", "ColesDataModuleTrain")
CpcDataModuleTrain == Class("dltranz.data_load.data_module.cpc_data_module", "CpcDataModuleTrain")
CoLESModule == Class("dltranz.lightning_modules.coles_module", "CoLESModule")
CpcModule == Class("dltranz.lightning_modules.cpc_module", "CpcModule")
Trainer == Class("pytorch_lightning", "Trainer")
SeedEverythingFn == Class("pytorch_lightning", "seed_everything")
TrainerFit == Class("pytorch_lightning", "Trainer.fit")
TrainerSaveCheckpoint == Class("pytorch_lightning", "Trainer.save_checkpoint")
None == Class("builtins", "None")

DataModules == <<ColesDataModuleTrain, CpcDataModuleTrain>>
PlModules == <<CoLESModule, CpcModule>>

\* the for/if/break scan of main: the first class of the list named `name`
\* (LookupIgnoringName: the comparison dropped, the first class always taken)
LookupIgnoringName(list, name) == IF list = <<>> THEN None ELSE Head(list)
RECURSIVE Lookup(_, _)
Lookup(list, name) ==
    IF list = <<>> THEN None
    ELSE IF Head(list).name = name THEN Head(list)
    ELSE Lookup(Tail(list), name)

\* configuration access: conf['a.b'] and conf.a.b read the same entry
ConfHas(conf, key) == key \in DOMAIN conf
DataModuleName(conf) == conf["params"].data_module_name
PlModuleName(conf) == conf["params"].pl_module_name

Exception(type, args) == [type |-> type, args |-> args]

\* the two NotImplementedError values of main
\* (UnknownPlModuleNamingData: the message built from the other field)
UnknownDataModule(conf) ==
    Exception("NotImplementedError", <<"Unknown data module ", DataModuleName(conf)>>)
UnknownPlModuleNamingData(conf) ==
    Exception("NotImplementedError", <<"Unknown pl module ", DataModuleName(conf)>>)
UnknownPlModule(conf) ==
    Exception("NotImplementedError", <<"Unknown pl module ", PlModuleName(conf)>>)

\* the calls main makes, as entries of the call log
Call(fn, args, kwargs) == [fn |-> fn, args |-> args, kwargs |-> kwargs]
NoKwargs == [weights_only |-> FALSE]
SeedCall(conf) == Call(SeedEverythingFn, <<conf["seed_everything"]>>, NoKwargs)
ModelCall(conf, pl_module) == Call(pl_module, <<conf["params"]>>, NoKwargs)
DmCall(conf, data_module, model) == Call(data_module, <<conf["data_module"], model>>, NoKwargs)
TrainerCall(conf) == Call(Trainer, <<>>, conf["trainer"])
\* (FitCallSwapped: the two arguments of fit exchanged)
FitCallSwapped(trainer, model, dm) == Call(TrainerFit, <<trainer, dm, model>>, NoKwargs)
FitCall(trainer, model, dm) == Call(TrainerFit, <<trainer, model, dm>>, NoKwargs)
\* (SaveCallFull: a full checkpoint instead of the weights alone)
SaveCallFull(conf, trainer) ==
    Call(TrainerSaveCheckpoint, <<trainer, conf["model_path"]>>, [weights_only |-> FALSE])
SaveCall(conf, trainer) ==
    Call(TrainerSaveCheckpoint, <<trainer, conf["model_path"]>>, [weights_only |-> TRUE])

\* an instance made by the n-th call of the run
Instance(cls, n) == [cls |-> cls, id |-> n]
NoInstance == Instance(None, 0)

\* what leaves main when a callee raises: nothing catches it
\* (Translated: the exception wrapped into another one on the way out)
Translated(exc) == Exception("TrainingError", exc.args)
Propagated(exc) == exc

\* failures a constructor or the trainer may raise
Failures == {Exception("ValueError", <<"bad config">>),
             Exception("RuntimeError", <<"out of memory">>)}

\* configurations
ConfiguredNames == {"ColesDataModuleTrain", "CpcDataModuleTrain", "CoLESModule",
                    "CpcModule", "UnknownThing", "colesdatamoduletrain"}
ModelPaths == {"model.p"}
ConfValue(k, dn, pn, mp) ==
    CASE k = "params" -> [data_module_name |-> dn, pl_module_name |-> pn]
      [] k = "data_module" -> [setup |-> "data_module block"]
      [] k = "trainer" -> [max_epochs |-> "trainer block"]
      [] k = "model_path" -> mp
      [] k = "seed_everything" -> 42
RequiredConf == {"params", "data_module", "trainer"}
OptionalConf == {"seed_everything", "model_path"}
Conf(dn, pn, opt, mp) == [k \in RequiredConf \cup opt |-> ConfValue(k, dn, pn, mp)]

\* ---------------------------------------------------------------- state
VARIABLES heap, result,
          pc, conf, data_module, pl_module, model, dm, trainer, calls, raised

batchVars == <<heap, result>>
mainVars == <<pc, conf, data_module, pl_module, model, dm, trainer, calls, raised>>
vars == <<batchVars, mainVars>>

NoResult == [op |-> "none", obj |-> 0, status |-> "ok", val |-> 0]

MainIdle ==
    /\ pc = "idle"
    /\ conf = Conf("", "", {}, "")
    /\ data_module = None
    /\ pl_module = None
    /\ model = NoInstance
    /\ dm = NoInstance
    /\ trainer = NoInstance
    /\ calls = <<>>
    /\ raised = None

InitBatch ==
    /\ \/ \E d \in Devices : \E p \in DictPayloads(d) : \E l \in LengthData :
              heap = <<Collated(p, l, d)>>
       \/ \E d \in Devices : \E p \in TensorPayloads(d) : \E l \in LengthData :
              heap = <<Collated(p, l, d)>>
       \/ heap = <<DocBatch>>
       \/ heap = <<DocDictBatch>>
    /\ result = NoResult
    /\ MainIdle

CallLen ==
    \E i \in DOMAIN heap :
        /\ result' = [op |-> "len", obj |-> i, status |-> "ok", val |-> BatchLen(heap[i])]
        /\ UNCHANGED <<heap, mainVars>>

CallSeqLenMask ==
    \E i \in DOMAIN heap :
        LET r == SeqLenMask(heap[i])
        IN  /\ result' = [op |-> "seq_len_mask", obj |-> i, status |-> r.status, val |-> r.val]
            /\ UNCHANGED <<heap, mainVars>>

CallTo ==
    /\ Len(heap) < MaxObjs
    /\ UNCHANGED mainVars
    /\ \E i \in DOMAIN heap : \E d \in Devices :
        LET r == To(heap, i, d)
        IN  IF r.status = "ok"
            THEN /\ heap' = r.val.heap
                 /\ result' = [op |-> "to", obj |-> i, status |-> "ok",
                               val |-> [ret |-> r.val.ret, device |-> d]]
            ELSE /\ result' = [op |-> "to", obj |-> i, status |-> "raise", val |-> r.val]
                 /\ UNCHANGED heap

NextBatch == CallLen \/ CallSeqLenMask \/ CallTo

SpecBatch == InitBatch /\ [][NextBatch]_vars

\* ------------------------------------------------------------ main, by step
InitMain ==
    /\ heap = <<>>
    /\ result = NoResult
    /\ \E dn \in ConfiguredNames : \E pn \in ConfiguredNames :
          \E opt \in SUBSET OptionalConf : \E mp \in ModelPaths :
              conf = Conf(dn, pn, opt, mp)
    /\ pc = "seed"
    /\ data_module = None
    /\ pl_module = None
    /\ model = NoInstance
    /\ dm = NoInstance
    /\ trainer = NoInstance
    /\ calls = <<>>
    /\ raised = None

Logged(call, outcome) == [call |-> call, outcome |-> outcome]

\* a call into a collaborator: it returns `value`, or raises, and then the
\* exception leaves main
External(call, value, ok) ==
    \/ /\ calls' = Append(calls, Logged(call, Ok(value)))
       /\ ok
    \/ \E exc \in Failures :
          /\ calls' = Append(calls, Logged(call, Raise(exc)))
          /\ raised' = Propagated(exc)
          /\ pc' = "raised"
          /\ UNCHANGED <<model, dm, trainer>>

\* lines 16-17
SeedEverything ==
    /\ pc = "seed"
    /\ pc' = "lookup_data"
    /\ IF ConfHas(conf, "seed_everything")
       THEN calls' = Append(calls, Logged(SeedCall(conf), Ok(conf["seed_everything"])))
       ELSE UNCHANGED calls
    /\ UNCHANGED <<batchVars, conf, data_module, pl_module, model, dm, trainer, raised>>

\* lines 19-26
LookupDataModule ==
    /\ pc = "lookup_data"
    /\ data_module' = Lookup(DataModules, DataModuleName(conf))
    /\ IF data_module' = None
       THEN /\ raised' = UnknownDataModule(conf)
            /\ pc' = "raised"
       ELSE /\ pc' = "lookup_pl"
            /\ UNCHANGED raised
    /\ UNCHANGED <<batchVars, conf, pl_module, model, dm, trainer, calls>>

\* lines 28-35
LookupPlModule ==
    /\ pc = "lookup_pl"
    /\ pl_module' = Lookup(PlModules, PlModuleName(conf))
    /\ IF pl_module' = None
       THEN /\ raised' = UnknownPlModule(conf)
            /\ pc' = "raised"
       ELSE /\ pc' = "model"
            /\ UNCHANGED raised
    /\ UNCHANGED <<batchVars, conf, data_module, model, dm, trainer, calls>>

\* line 37
ConstructModel ==
    /\ pc = "model"
    /\ LET new == Instance(pl_module, Len(calls) + 1)
       IN  External(ModelCall(conf, pl_module), new,
                    /\ model' = new
                    /\ pc' = "dm"
                    /\ UNCHANGED <<dm, trainer, raised>>)
    /\ UNCHANGED <<batchVars, conf, data_module, pl_module>>

\* line 38
ConstructDataModule ==
    /\ pc = "dm"
    /\ LET new == Instance(data_module, Len(calls) + 1)
       IN  External(DmCall(conf, data_module, model), new,
                    /\ dm' = new
                    /\ pc' = "trainer"
                    /\ UNCHANGED <<model, trainer, raised>>)
    /\ UNCHANGED <<batchVars, conf, data_module, pl_module>>

\* line 39
ConstructTrainer ==
    /\ pc = "trainer"
    /\ LET new == Instance(Trainer, Len(calls) + 1)
       IN  External(TrainerCall(conf), new,
                    /\ trainer' = new
                    /\ pc' = "fit"
                    /\ UNCHANGED <<model, dm, raised>>)
    /\ UNCHANGED <<batchVars, conf, data_module, pl_module>>

\* line 40
Fit ==
    /\ pc = "fit"
    /\ External(FitCall(trainer, model, dm), NoInstance,
                /\ pc' = "save"
                /\ UNCHANGED <<model, dm, trainer, raised>>)
    /\ UNCHANGED <<batchVars, conf, data_module, pl_module>>

\* lines 42-44
SaveCheckpoint ==
    /\ pc = "save"
    /\ IF ConfHas(conf, "model_path")
       THEN External(SaveCall(conf, trainer), NoInstance,
                     /\ pc' = "done"
                     /\ UNCHANGED <<model, dm, trainer, raised>>)
       ELSE /\ pc' = "done"
            /\ UNCHANGED <<model, dm, trainer, raised, calls>>
    /\ UNCHANGED <<batchVars, conf, data_module, pl_module>>

NextMain ==
    \/ SeedEverything
    \/ LookupDataModule
    \/ LookupPlModule
    \/ ConstructModel
    \/ ConstructDataModule
    \/ ConstructTrainer
    \/ Fit
    \/ SaveCheckpoint

SpecMain == InitMain /\ [][NextMain]_vars

\* ------------------------------------------------- PaddedBatch properties
\* the batch the last call was made on
Subject == heap[result.obj]

\* cell (i, t) of a (R, T) array stored row-major; i from 1, t from 0
Cell(m, i, t) == m.data[(i - 1) * m.shape[2] + t + 1]

\* a payload in one of the documented forms with batch size B and width T
HasWidth(b, B, T) ==
    IF b.payload.kind = "dict"
    THEN /\ b.payload.val # <<>>
         /\ \A j \in DOMAIN b.payload.val : b.payload.val[j][2].shape = <<B, T>>
    ELSE /\ Len(TensorOf(b.payload).shape) \in {2, 3}
         /\ TensorOf(b.payload).shape[1] = B
         /\ TensorOf(b.payload).shape[2] = T

Widths == {<<B, T>> : B \in 0..(MaxB + 1), T \in 0..(MaxT + 2)}

Min(a, b) == IF a < b THEN a ELSE b
Max(a, b) == IF a > b THEN a ELSE b

RECURSIVE Sum(_)
Sum(q) == IF q = <<>> THEN 0 ELSE Head(q) + Sum(Tail(q))

Row(m, i) == [t \in 1..m.shape[2] |-> Cell(m, i, t - 1)]

\* C1: for a payload of batch size B and width T (in any documented form)
\* and a length array of B entries, seq_len_mask is a (B, T) array of 0/1
\* with mask[i, t] = 1 exactly when t < length[i]; the docstring batch gives
\* [[1,1,0,0],[1,1,1,1],[1,1,1,0]].
MaskMatchesLengths ==
    result.op = "seq_len_mask" =>
        /\ \A w \in Widths :
              (HasWidth(Subject, w[1], w[2]) /\ Len(Subject.length.data) = w[1]) =>
                  /\ result.status = "ok"
                  /\ result.val.shape = w
                  /\ Len(result.val.data) = w[1] * w[2]
                  /\ \A i \in 1..w[1] : \A t \in 0..(w[2] - 1) :
                        /\ Cell(result.val, i, t) \in {0, 1}
                        /\ Cell(result.val, i, t) = 1 <=> t < Subject.length.data[i]
        /\ Subject \in {DocBatch, DocDictBatch} =>
              /\ result.status = "ok"
              /\ result.val.shape = <<3, 4>>
              /\ result.val.data = DocMask

MaskOfDocBatchSeen ==
    /\ result.op = "seq_len_mask"
    /\ result.obj = 1
    /\ heap[1] = DocDictBatch
    /\ result.status = "ok"
    /\ result.val.data = DocMask

\* C9: len(batch) is the number of entries of length, whatever the payload's
\* form and whatever the payload's own batch dimension.
LenIsLengthExtent ==
    result.op = "len" =>
        /\ result.status = "ok"
        /\ result.val = Subject.length.shape[1]

LenOfMismatchedBatchSeen ==
    /\ result.op = "len"
    /\ Subject.payload.kind = "tensor"
    /\ TensorOf(Subject.payload).shape[1] = 1
    /\ Subject.length.shape[1] = 2
    /\ result.val = 2

\* C10: lengths are not validated, the mask is still defined for out-of-range
\* lengths, and every row is ones followed by zeros, row i holding exactly
\* min(max(length[i], 0), T) ones.
MaskRowsArePrefixes ==
    result.op = "seq_len_mask" =>
        /\ (\E w \in Widths :
                HasWidth(Subject, w[1], w[2]) /\ Len(Subject.length.data) = w[1])
              => result.status = "ok"
        /\ result.status = "ok" =>
              LET m == result.val
                  T == m.shape[2]
              IN  /\ \A i \in 1..m.shape[1] : \A t \in 0..(T - 2) :
                        Cell(m, i, t) = 0 => Cell(m, i, t + 1) = 0
                  /\ \A i \in 1..Min(m.shape[1], Len(Subject.length.data)) :
                        Sum(Row(m, i)) = Min(Max(Subject.length.data[i], 0), T)

MaskOfOutOfRangeLengthsSeen ==
    /\ result.op = "seq_len_mask"
    /\ result.status = "ok"
    /\ Subject.payload.kind = "dict"
    /\ Subject.length.data = <<0 - 1, MaxT + 1>>
    /\ result.val.shape = <<2, MaxT>>
    /\ \A t \in 0..(MaxT - 1) : Cell(result.val, 1, t) = 0 /\ Cell(result.val, 2, t) = 1

\* C2: device transfer succeeds for every supported payload form and returns
\* a new PaddedBatch whose payload arrays and length are on the target device
\* with the same shapes and the same length values.
SameShapes(a, b) ==
    /\ a.payload.kind = b.payload.kind
    /\ IF a.payload.kind = "dict"
       THEN /\ DOMAIN a.payload.val = DOMAIN b.payload.val
            /\ \A j \in DOMAIN a.payload.val :
                  /\ a.payload.val[j][1] = b.payload.val[j][1]
                  /\ a.payload.val[j][2].shape = b.payload.val[j][2].shape
       ELSE TensorOf(a.payload).shape = TensorOf(b.payload).shape

AllOn(b, device) ==
    /\ b.length.device = device
    /\ IF b.payload.kind = "dict"
       THEN \A j \in DOMAIN b.payload.val : b.payload.val[j][2].device = device
       ELSE TensorOf(b.payload).device = device

ToSucceedsForEveryForm ==
    result.op = "to" =>
        /\ result.status = "ok"
        /\ AllOn(heap[result.val.ret], result.val.device)
        /\ SameShapes(heap[result.val.ret], Subject)
        /\ heap[result.val.ret].length.shape = Subject.length.shape
        /\ heap[result.val.ret].length.data = Subject.length.data

\* C3: device transfer preserves values and mutates nothing: the result of
\* to() holds, under the same keys, arrays equal to the source's, it is a
\* distinct instance, and existing instances keep their payload and length.
SameValues(a, b) ==
    /\ a.length.data = b.length.data
    /\ a.payload.kind = b.payload.kind
    /\ IF a.payload.kind = "dict"
       THEN /\ DOMAIN a.payload.val = DOMAIN b.payload.val
            /\ \A j \in DOMAIN a.payload.val :
                  /\ a.payload.val[j][1] = b.payload.val[j][1]
                  /\ a.payload.val[j][2].shape = b.payload.val[j][2].shape
                  /\ a.payload.val[j][2].data = b.payload.val[j][2].data
       ELSE /\ TensorOf(a.payload).shape = TensorOf(b.payload).shape
            /\ TensorOf(a.payload).data = TensorOf(b.payload).data

ToPreservesValues ==
    result.op = "to" =>
        /\ result.status = "ok"
        /\ result.val.ret # result.obj
        /\ SameValues(heap[result.val.ret], Subject)
        /\ \A i \in DOMAIN heap : SameValues(heap[i], heap[1])

\* ---------------------------------------------------------- main properties
KnownDataNames == {"ColesDataModuleTrain", "CpcDataModuleTrain"}
KnownPlNames == {"CoLESModule", "CpcModule"}
KnownClasses == {ColesDataModuleTrain, CpcDataModuleTrain, CoLESModule, CpcModule}
ClassNamed(name) == CHOOSE c \in KnownClasses : c.name = name

Ended == pc \in {"done", "raised"}
CallsTo(fn) == {i \in DOMAIN calls : calls[i].call.fn = fn}
Returned(fn) == {i \in CallsTo(fn) : calls[i].outcome.status = "ok"}
Recognized == /\ DataModuleName(conf) \in KnownDataNames
              /\ PlModuleName(conf) \in KnownPlNames

\* C4: with a data_module_name or pl_module_name that names no known
\* component, main ends with NotImplementedError whose message contains the
\* offending name; no objective, data component or trainer is constructed,
\* and neither fit nor a weight save is started.
UnknownNameStopsMain ==
    LET offending == IF DataModuleName(conf) \notin KnownDataNames
                     THEN DataModuleName(conf) ELSE PlModuleName(conf)
    IN  ~Recognized =>
            /\ pc \in {"seed", "lookup_data", "lookup_pl", "raised"}
            /\ pc = "raised" =>
                  /\ raised.type = "NotImplementedError"
                  /\ \E k \in DOMAIN raised.args : raised.args[k] = offending
            /\ model = NoInstance /\ dm = NoInstance /\ trainer = NoInstance
            /\ \A i \in DOMAIN calls : calls[i].call.fn = SeedEverythingFn

UnknownPlModuleRaisedSeen ==
    /\ pc = "raised"
    /\ DataModuleName(conf) = "ColesDataModuleTrain"
    /\ PlModuleName(conf) = "UnknownThing"
    /\ raised = Exception("NotImplementedError", <<"Unknown pl module ", "UnknownThing">>)
    /\ CallsTo(Trainer) = {}

\* C5: when main has ended, a weight save was called iff model_path is
\* configured and fit returned normally; it is called at most once, after
\* fit returned, on the configured path, weights only; without model_path no
\* save is ever called.
SaveIffModelPathAndFitReturned ==
    LET saves == CallsTo(TrainerSaveCheckpoint)
    IN  /\ Ended => (saves # {} <=> (ConfHas(conf, "model_path") /\ Returned(TrainerFit) # {}))
        /\ Cardinality(saves) <= 1
        /\ \A i \in saves :
              /\ \E j \in Returned(TrainerFit) : j < i
              /\ calls[i].call.args = <<trainer, conf["model_path"]>>
              /\ calls[i].call.kwargs = [weights_only |-> TRUE]
        /\ ~ConfHas(conf, "model_path") => saves = {}

WeightsSavedSeen ==
    /\ pc = "done"
    /\ ConfHas(conf, "model_path")
    /\ Returned(TrainerSaveCheckpoint) # {}
    /\ calls[Len(calls)].call.fn = TrainerSaveCheckpoint
    /\ calls[Len(calls)].call.args[2] \in ModelPaths

\* C6: with two recognized names the steps happen in order, each at most
\* once, each after the previous one returned: the objective from the params
\* block, the data component from the data_module block and that objective,
\* the trainer from the trainer block, then fit with that objective and that
\* data component.
StepsInOrder ==
    LET k == Cardinality(CallsTo(SeedEverythingFn))
        n == Len(calls)
    IN  Recognized =>
            /\ n <= k + 5
            /\ \A i \in 2..n : calls[i - 1].outcome.status = "ok"
            /\ n >= k + 1 =>
                  calls[k + 1].call =
                      Call(ClassNamed(PlModuleName(conf)), <<conf["params"]>>, NoKwargs)
            /\ n >= k + 2 =>
                  /\ calls[k + 2].call.fn = ClassNamed(DataModuleName(conf))
                  /\ calls[k + 2].call.args = <<conf["data_module"], calls[k + 1].outcome.val>>
                  /\ calls[k + 1].outcome.val.cls = ClassNamed(PlModuleName(conf))
            /\ n >= k + 3 =>
                  /\ calls[k + 3].call.fn = Trainer
                  /\ calls[k + 3].call.args = <<>>
                  /\ calls[k + 3].call.kwargs = conf["trainer"]
            /\ n >= k + 4 =>
                  /\ calls[k + 4].call.fn = TrainerFit
                  /\ calls[k + 4].call.args =
                        <<calls[k + 3].outcome.val, calls[k + 1].outcome.val,
                          calls[k + 2].outcome.val>>
            /\ n >= k + 5 => calls[k + 5].call.fn = TrainerSaveCheckpoint

FitAfterAllConstructedSeen ==
    /\ pc = "save"
    /\ Recognized
    /\ Returned(TrainerFit) # {}
    /\ calls[Len(calls)].call.args = <<trainer, model, dm>>
    /\ model.id < dm.id /\ dm.id < trainer.id

\* C7: each known data-component name and each known objective name
\* resolves to the one constructor of that name; the lookups are
\* independent, so all four pairs are accepted and neither choice depends on
\* the other name.
LookupsAreIndependent ==
    /\ \A name \in KnownDataNames \cup KnownPlNames :
          Cardinality({c \in KnownClasses : c.name = name}) = 1
    /\ (DataModuleName(conf) \in KnownDataNames /\ pc \notin {"seed", "lookup_data"}) =>
          /\ data_module = ClassNamed(DataModuleName(conf))
          /\ PlModuleName(conf) \in KnownPlNames => raised = None \/ raised \in Failures
          /\ (PlModuleName(conf) \in KnownPlNames /\ pc # "lookup_pl") =>
                pl_module = ClassNamed(PlModuleName(conf))
    /\ model # NoInstance => model.cls.name = PlModuleName(conf)
    /\ dm # NoInstance => dm.cls.name = DataModuleName(conf)

CrossPairAcceptedSeen ==
    /\ pc = "trainer"
    /\ DataModuleName(conf) = "CpcDataModuleTrain"
    /\ PlModuleName(conf) = "CoLESModule"
    /\ data_module = CpcDataModuleTrain
    /\ pl_module = CoLESModule
    /\ model.cls = CoLESModule
    /\ dm.cls = CpcDataModuleTrain

\* C8: a failure raised by a constructor or by fit leaves main unchanged; no
\* later step runs after it (no weight save either), and no step is
\* attempted twice.
FailuresPropagate ==
    /\ \A i \in DOMAIN calls :
          calls[i].outcome.status = "raise" =>
              /\ i = Len(calls)
              /\ pc = "raised"
              /\ raised = calls[i].outcome.val
              /\ calls[i].call.fn # TrainerSaveCheckpoint => CallsTo(TrainerSaveCheckpoint) = {}
    /\ \A i \in DOMAIN calls : \A j \in DOMAIN calls :
          calls[i].call.fn = calls[j].call.fn => i = j

FitFailureSeen ==
    /\ pc = "raised"
    /\ ConfHas(conf, "model_path")
    /\ calls # <<>>
    /\ calls[Len(calls)].call.fn = TrainerFit
    /\ calls[Len(calls)].outcome.status = "raise"
    /\ raised = calls[Len(calls)].outcome.val
    /\ raised.type = "ValueError"

====
